---- MODULE Spec2Model ----
(***************************************************************************)
(* State-machine model of add-fertilizers.py: the DBFWriter class          *)
(* (read_dbf, record_exists, format_value, add_record, write_dbf) and the  *)
(* add_fertilizers_to_db driver.  Files are sequences of bytes (0..255);   *)
(* Python's 0-based half-open slices are modelled by Slice.                *)
(***************************************************************************)
EXTENDS Integers, Sequences, FiniteSets, TLC

(***************************************************************************)
(* Program constants.                                                      *)
(***************************************************************************)
HeaderSize == 32
DescSize == 32
NameEnd == 81
Terminator == 13
EOFMarker == 26
ActiveMark == 32
DeletedMark == 42
SpaceByte == 32

(***************************************************************************)
(* Bounds of the model.                                                    *)
(***************************************************************************)
MaxRuns == 2
MaxTime == 2
MaxRecords == 2

(***************************************************************************)
(* Python sequence primitives.                                             *)
(***************************************************************************)
Min(a, b) == IF a < b THEN a ELSE b
Max(a, b) == IF a > b THEN a ELSE b

\* s[a:b] for 0 <= a, 0 <= b
Slice(s, a, b) ==
    LET lo == Min(a, Len(s))
        hi == Min(b, Len(s))
    IN  IF hi <= lo THEN << >> ELSE SubSeq(s, lo + 1, hi)

\* bytes(n) / b'x' * n
Fill(b, n) == [i \in 1..n |-> b]

\* s.ljust(n) and s.rjust(n) with the space fill byte
Ljust(s, n) == IF Len(s) >= n THEN s ELSE s \o Fill(SpaceByte, n - Len(s))
Rjust(s, n) == IF Len(s) >= n THEN s ELSE Fill(SpaceByte, n - Len(s)) \o s

\* buf[a:b] = data on a bytearray: the slice is replaced, the length may change
SliceAssign(buf, a, b, data) ==
    LET lo == Min(a, Len(buf))
        hi == Max(lo, Min(b, Len(buf)))
    IN  Slice(buf, 0, lo) \o data \o Slice(buf, hi, Len(buf))

RECURSIVE Flatten(_)
Flatten(ss) == IF ss = << >> THEN << >> ELSE Head(ss) \o Flatten(Tail(ss))

\* struct.pack / struct.unpack, little endian
PackU16(v) == << v % 256, (v \div 256) % 256 >>
PackU32(v) == << v % 256, (v \div 256) % 256, (v \div 65536) % 256, (v \div 16777216) % 256 >>
UnpackU16(b) == b[1] + 256 * b[2]
UnpackU32(b) == b[1] + 256 * b[2] + 65536 * b[3] + 16777216 * b[4]

\* bytes.decode('ascii', errors='ignore'): bytes above 127 are dropped
AsciiIgnore(s) == SelectSeq(s, LAMBDA b : b < 128)

\* str.isspace() for one ASCII character
IsSpace(b) == b \in {9, 10, 11, 12, 13, 28, 29, 30, 31, 32}

RECURSIVE LStrip(_)
LStrip(s) == IF s # << >> /\ IsSpace(Head(s)) THEN LStrip(Tail(s)) ELSE s

RECURSIVE RStrip(_)
RStrip(s) == IF s # << >> /\ IsSpace(s[Len(s)]) THEN RStrip(SubSeq(s, 1, Len(s) - 1)) ELSE s

\* str.strip()
Strip(s) == RStrip(LStrip(s))

RECURSIVE LStripNul(_)
LStripNul(s) == IF s # << >> /\ Head(s) = 0 THEN LStripNul(Tail(s)) ELSE s

RECURSIVE RStripNul(_)
RStripNul(s) == IF s # << >> /\ s[Len(s)] = 0 THEN RStripNul(SubSeq(s, 1, Len(s) - 1)) ELSE s

\* str.strip('\x00')
StripNul(s) == RStripNul(LStripNul(s))

\* str.lower() on ASCII text
LowerByte(b) == IF b >= 65 /\ b <= 90 THEN b + 32 ELSE b
Lower(s) == [i \in 1..Len(s) |-> LowerByte(s[i])]

(***************************************************************************)
(* DBFWriter.read_dbf.  The file is read sequentially: 32 header bytes,    *)
(* then 32-byte blocks until one starts with the terminator, then          *)
(* num_records reads of record_length bytes from wherever the file         *)
(* position then is.  A read at end of file returns fewer (or no) bytes.   *)
(***************************************************************************)
NoHeader ==
    [version |-> 0, year |-> 0, month |-> 0, day |-> 0,
     num_records |-> 0, header_length |-> 0, record_length |-> 0]

\* header_data[0..3] and the three struct.unpack calls need 12 bytes
HeaderReadable(f) == Len(Slice(f, 0, HeaderSize)) >= 12

ParseHeader(f) ==
    LET header_data == Slice(f, 0, HeaderSize)
    IN  [version |-> header_data[1],
         year |-> header_data[2],
         month |-> header_data[3],
         day |-> header_data[4],
         num_records |-> UnpackU32(Slice(header_data, 4, 8)),
         header_length |-> UnpackU16(Slice(header_data, 8, 10)),
         record_length |-> UnpackU16(Slice(header_data, 10, 12))]

ParseDescriptor(field_data) ==
    [name |-> StripNul(Slice(field_data, 0, 11)),
     type |-> field_data[12],
     length |-> field_data[17],
     decimal |-> field_data[18]]

\* The descriptor loop from file position pos.  ok is FALSE when the loop
\* raises: an empty read (IndexError), a name byte that is not ASCII
\* (UnicodeDecodeError) or a block too short for bytes 11, 16, 17.
RECURSIVE ScanDescriptors(_, _, _)
ScanDescriptors(f, pos, acc) ==
    LET field_data == Slice(f, pos, pos + DescSize)
        next == pos + Len(field_data)
    IN  IF field_data = << >>
        THEN [ok |-> FALSE, descs |-> acc, pos |-> next]
        ELSE IF field_data[1] = Terminator
        THEN [ok |-> TRUE, descs |-> acc, pos |-> next]
        ELSE IF (\E i \in 1..Len(Slice(field_data, 0, 11)) : field_data[i] >= 128)
                \/ Len(field_data) < 18
        THEN [ok |-> FALSE, descs |-> acc, pos |-> next]
        ELSE ScanDescriptors(f, next, Append(acc, ParseDescriptor(field_data)))

ReadRecords(f, pos, n, record_length) ==
    [i \in 1..n |-> Slice(f, pos + (i - 1) * record_length, pos + i * record_length)]

read_dbf(f) ==
    IF ~HeaderReadable(f)
    THEN [ok |-> FALSE, header |-> NoHeader, field_descriptors |-> << >>, records |-> << >>]
    ELSE LET h == ParseHeader(f)
             scan == ScanDescriptors(f, Len(Slice(f, 0, HeaderSize)), << >>)
         IN  IF ~scan.ok
             THEN [ok |-> FALSE, header |-> h, field_descriptors |-> scan.descs,
                   records |-> << >>]
             ELSE [ok |-> TRUE, header |-> h, field_descriptors |-> scan.descs,
                   records |-> ReadRecords(f, scan.pos, h.num_records, h.record_length)]

(***************************************************************************)
(* DBFWriter.record_exists.                                                *)
(***************************************************************************)
RecordName(record) == Strip(AsciiIgnore(Slice(record, 1, NameEnd)))

IsDeleted(record) == Slice(record, 0, 1) = << DeletedMark >>

NameMatches(record, name) == Lower(RecordName(record)) = Lower(name)

\* record_exists comparing the names as they are
record_exists_case_sensitive(recs, name) ==
    \E i \in 1..Len(recs) : ~IsDeleted(recs[i]) /\ RecordName(recs[i]) = name

\* record_exists without the test of the deletion flag
record_exists_any_status(recs, name) ==
    \E i \in 1..Len(recs) : NameMatches(recs[i], name)

record_exists(recs, name) ==
    \E i \in 1..Len(recs) : ~IsDeleted(recs[i]) /\ NameMatches(recs[i], name)

(***************************************************************************)
(* Python values of a field_values dict.  A float is held exactly as a     *)
(* number of quarters (n/4), so its decimal expansion is exact.            *)
(***************************************************************************)
NoneV == [kind |-> "none", s |-> << >>, n |-> 0]
StrV(t) == [kind |-> "str", s |-> t, n |-> 0]
IntV(k) == [kind |-> "int", s |-> << >>, n |-> k]
FloatV(q) == [kind |-> "float", s |-> << >>, n |-> q]

Abs(k) == IF k < 0 THEN -k ELSE k

RECURSIVE Pow10(_)
Pow10(d) == IF d = 0 THEN 1 ELSE 10 * Pow10(d - 1)

\* decimal digits of k >= 0 as ASCII
RECURSIVE Digits(_)
Digits(k) == IF k < 10 THEN << 48 + k >> ELSE Digits(k \div 10) \o << 48 + (k % 10) >>

\* k >= 0 in exactly d digits, zero filled on the left
RECURSIVE FixedDigits(_, _)
FixedDigits(k, d) == IF d = 0 THEN << >> ELSE FixedDigits(k \div 10, d - 1) \o << 48 + (k % 10) >>

IsDigitText(t) == t # << >> /\ \A i \in 1..Len(t) : t[i] >= 48 /\ t[i] <= 57

RECURSIVE DigitsValue(_)
DigitsValue(t) == IF t = << >> THEN 0 ELSE 10 * DigitsValue(SubSeq(t, 1, Len(t) - 1)) + (t[Len(t)] - 48)

\* float(value) raises for None and for text that is not a number.  Of the
\* texts float() accepts, the model knows the plain digit strings; the other
\* texts it is given are words.
FloatRaises(value) == value.kind = "none" \/ (value.kind = "str" /\ ~IsDigitText(value.s))

\* float(value) in quarters, where it does not raise
Quarters(value) ==
    CASE value.kind = "int" -> 4 * value.n
      [] value.kind = "str" -> 4 * DigitsValue(value.s)
      [] OTHER -> value.n

\* f"{x:.{d}f}" for x = q/4, d > 0: correctly rounded, ties to even
FixedPoint(q, d) ==
    LET scaled == Abs(q) * Pow10(d)
        t0 == scaled \div 4
        r == scaled % 4
        t == IF r > 2 \/ (r = 2 /\ t0 % 2 = 1) THEN t0 + 1 ELSE t0
        sign == IF q < 0 THEN << 45 >> ELSE << >>
    IN  sign \o Digits(t \div Pow10(d)) \o << 46 >> \o FixedDigits(t % Pow10(d), d)

\* f"{int(x)}" for x = q/4: truncation toward zero
IntText(q) ==
    LET k == Abs(q) \div 4
    IN  (IF q < 0 /\ k > 0 THEN << 45 >> ELSE << >>) \o Digits(k)

\* str(value)
StrOf(value) ==
    CASE value.kind = "str" -> value.s
      [] value.kind = "int" -> (IF value.n < 0 THEN << 45 >> ELSE << >>) \o Digits(Abs(value.n))
      [] value.kind = "float" ->
            LET a == Abs(value.n)
                frac == CASE a % 4 = 0 -> << 48 >>
                          [] a % 4 = 1 -> << 50, 53 >>
                          [] a % 4 = 2 -> << 53 >>
                          [] OTHER -> << 55, 53 >>
            IN  (IF value.n < 0 THEN << 45 >> ELSE << >>) \o Digits(a \div 4) \o << 46 >> \o frac
      [] OTHER -> << 78, 111, 110, 101 >>

\* bool(value)
Truthy(value) ==
    CASE value.kind = "str" -> value.s # << >>
      [] value.kind \in {"int", "float"} -> value.n # 0
      [] OTHER -> FALSE

(***************************************************************************)
(* DBFWriter.format_value.                                                 *)
(***************************************************************************)
\* the numeric branch once the value is known to convert: the format pads to
\* the width, [:field_length] keeps the leftmost bytes, rjust pads again
FormatNumeric(value, field_length, field_decimal) ==
    LET text == IF field_decimal > 0
                THEN FixedPoint(Quarters(value), field_decimal)
                ELSE IntText(Quarters(value))
        formatted == Rjust(text, field_length)
    IN  Rjust(Slice(formatted, 0, field_length), field_length)

FormatCharacter(value, field_length) ==
    LET v == IF value.kind = "none" THEN StrV(<< >>) ELSE value
    IN  Ljust(Slice(AsciiIgnore(StrOf(v)), 0, field_length), field_length)

FormatLogical(value) == IF Truthy(value) THEN << 84 >> ELSE << 70 >>

format_value(value, field_type, field_length, field_decimal) ==
    CASE field_type = 78 ->
            IF value.kind = "none" \/ (value.kind = "str" /\ value.s = << >>)
            THEN Fill(SpaceByte, field_length)
            ELSE IF FloatRaises(value)
            THEN Fill(SpaceByte, field_length)
            ELSE FormatNumeric(value, field_length, field_decimal)
      [] field_type = 67 -> FormatCharacter(value, field_length)
      [] field_type = 76 -> FormatLogical(value)
      [] OTHER -> Fill(SpaceByte, field_length)

(***************************************************************************)
(* DBFWriter.add_record.  field_values is a sequence of <<name, value>>    *)
(* pairs; dict.get returns None for a missing name.                        *)
(***************************************************************************)
DictGet(field_values, name) ==
    IF \E i \in 1..Len(field_values) : field_values[i][1] = name
    THEN field_values[CHOOSE i \in 1..Len(field_values) : field_values[i][1] = name][2]
    ELSE NoneV

RECURSIVE FillFields(_, _, _, _)
FillFields(record, offset, descs, field_values) ==
    IF descs = << >>
    THEN record
    ELSE LET field == Head(descs)
             formatted == format_value(DictGet(field_values, field.name), field.type,
                                       field.length, field.decimal)
         IN  FillFields(SliceAssign(record, offset, offset + field.length, formatted),
                        offset + field.length, Tail(descs), field_values)

EncodeRecord(record_length, descs, field_values) ==
    FillFields([Fill(0, record_length) EXCEPT ![1] = ActiveMark], 1, descs, field_values)

(***************************************************************************)
(* DBFWriter.write_dbf: the bytes written to the table path.  The clock is *)
(* an instant t; the backup name carries t (one name per second) and the   *)
(* header carries the date of t (the model's days last two instants).      *)
(***************************************************************************)
DateOf(t) == << 126, 11, 1 + (t \div 2) >>

HeaderBytes(h, t) ==
    << h.version >> \o DateOf(t) \o PackU32(h.num_records)
        \o PackU16(h.header_length) \o PackU16(h.record_length) \o Fill(0, HeaderSize - 12)

\* the write calls of the descriptor copy: one per 32-byte block of the
\* original file up to the terminator, which is written as the single byte 0x0D
RECURSIVE CopyDescriptors(_, _)
CopyDescriptors(orig, pos) ==
    LET field_data == Slice(orig, pos, pos + DescSize)
    IN  IF field_data = << >>
        THEN << >>
        ELSE IF field_data[1] = Terminator
        THEN << << Terminator >> >>
        ELSE << field_data >> \o CopyDescriptors(orig, pos + Len(field_data))

\* the write calls on the table file, in order: the header, one per descriptor
\* block, the terminator, one per record, the end-of-file marker
WriteParts(h, recs, orig, t) ==
    << HeaderBytes(h, t) >> \o CopyDescriptors(orig, HeaderSize) \o recs \o << << EOFMarker >> >>

FileImage(h, recs, orig, t) == Flatten(WriteParts(h, recs, orig, t))

\* what is at the table path when write call k raises: the file object is
\* closed by the with statement, which stores what the calls before k wrote
PartialImage(h, recs, orig, t, k) == Flatten(SubSeq(WriteParts(h, recs, orig, t), 1, k - 1))

\* what is at the table path when the system stores no more than limit bytes
\* of the file (a file size limit, a full disk): the file object is buffered,
\* every write call returns and the flush at close raises, so the cut falls
\* at the limit, at any byte of the file
LimitedImage(h, recs, orig, t, limit) == Slice(FileImage(h, recs, orig, t), 0, limit)

(***************************************************************************)
(* The table files and candidate batches the model starts from.            *)
(***************************************************************************)
NameKey == << 78, 97, 109, 101 >>
PKey == << 80 >>
IsLiquidKey == << 105, 115, 76, 105, 113, 117, 105, 100 >>

Desc(name, type, length, decimal) ==
    [name |-> name, type |-> type, length |-> length, decimal |-> decimal]

\* one 32-byte descriptor block: name at 0..10, type at 11, length at 16,
\* decimal count at 17
DescBlock(d) ==
    d.name \o Fill(0, 11 - Len(d.name)) \o << d.type >> \o Fill(0, 4)
        \o << d.length, d.decimal >> \o Fill(0, DescSize - 18)

\* descriptor lists with the record length the header declares for them; the
\* fifth and sixth declare a record length the descriptors do not add up to
Layouts ==
    { [descs |-> << Desc(NameKey, 67, 2, 0) >>, rl |-> 3],
      [descs |-> << Desc(NameKey, 67, 2, 0), Desc(PKey, 78, 4, 1) >>, rl |-> 7],
      [descs |-> << Desc(NameKey, 67, 2, 0), Desc(IsLiquidKey, 76, 1, 0) >>, rl |-> 4],
      [descs |-> << Desc(NameKey, 67, 2, 0), Desc(IsLiquidKey, 76, 2, 0) >>, rl |-> 5],
      [descs |-> << Desc(NameKey, 67, 2, 0), Desc(PKey, 78, 4, 1) >>, rl |-> 5],
      [descs |-> << Desc(NameKey, 67, 2, 0) >>, rl |-> 5],
      [descs |-> << Desc(NameKey, 67, 2, 0), Desc(PKey, 78, 2, 0) >>, rl |-> 5] }

MainLayout == [descs |-> << Desc(NameKey, 67, 2, 0), Desc(PKey, 78, 4, 1) >>, rl |-> 7]

\* a stored record: status byte, name, the other fields blank
StoredRecord(status, name, rl) == << status >> \o Ljust(name, rl - 1)

StoredPool(rl) ==
    { StoredRecord(ActiveMark, << 97 >>, rl),
      StoredRecord(DeletedMark, << 97 >>, rl),
      StoredRecord(ActiveMark, << 66 >>, rl) }

RECURSIVE SeqsUpTo(_, _)
SeqsUpTo(S, n) ==
    IF n = 0 THEN { << >> }
    ELSE LET shorter == SeqsUpTo(S, n - 1)
         IN  shorter \cup { Append(q, x) : q \in shorter, x \in S }

\* header, descriptor blocks, terminator, pad filler bytes up to header_length,
\* the records, the end-of-file marker; count is the declared record count and
\* reserved the value of header byte 29 (the language driver id)
MkFile(layout, pad, recs, count, reserved) ==
    LET n == Len(layout.descs)
        hl == HeaderSize + DescSize * n + 1 + pad
        blocks == Flatten([i \in 1..n |-> DescBlock(layout.descs[i])])
    IN  << 3, 100, 1, 1 >> \o PackU32(count) \o PackU16(hl) \o PackU16(layout.rl)
            \o Fill(0, 17) \o << reserved >> \o Fill(0, 2)
            \o blocks \o << Terminator >> \o Fill(0, pad) \o Flatten(recs) \o << EOFMarker >>

\* a file whose descriptor array has no terminator
NoTerminatorFile ==
    << 3, 100, 1, 1 >> \o PackU32(0) \o PackU16(65) \o PackU16(3) \o Fill(0, 20)
        \o DescBlock(Desc(NameKey, 67, 2, 0))

\* a file whose header declares a record length of 0
ZeroLengthFile ==
    << 3, 100, 1, 1 >> \o PackU32(1) \o PackU16(65) \o PackU16(0) \o Fill(0, 20)
        \o DescBlock(Desc(NameKey, 67, 2, 0)) \o << Terminator, EOFMarker >>

\* pad is 0 (records right after the terminator) or 31 (the terminator block
\* filled to 32 bytes)
Pads == {0, 31}

\* every layout with one record and a language driver id; the main layout
\* with up to MaxRecords records after a padded terminator block, and with up
\* to one right after the terminator; the same declaring one record more than
\* the file holds; the two files read_dbf or add_record fail on
Files ==
    { MkFile(layout, pad, << StoredRecord(ActiveMark, << 97 >>, layout.rl) >>, 1, 3) :
          layout \in Layouts, pad \in Pads }
    \cup { MkFile(MainLayout, 31, recs, Len(recs), 0) :
          recs \in SeqsUpTo(StoredPool(MainLayout.rl), MaxRecords) }
    \cup { MkFile(MainLayout, 0, recs, Len(recs), 0) :
          recs \in SeqsUpTo(StoredPool(MainLayout.rl), 1) }
    \cup { MkFile(MainLayout, pad, recs, Len(recs) + 1, 0) :
          pad \in Pads, recs \in SeqsUpTo(StoredPool(MainLayout.rl), 1) }
    \cup { NoTerminatorFile, ZeroLengthFile }

\* one candidate: the dict passed to add_record
Candidate(name) ==
    << << NameKey, StrV(name) >>, << PKey, FloatV(5) >>, << IsLiquidKey, IntV(1) >> >>

\* a candidate with the given value of P
CandidateWith(name, p) ==
    << << NameKey, StrV(name) >>, << PKey, p >>, << IsLiquidKey, IntV(1) >> >>

CandidateName(fert) == DictGet(fert, NameKey).s

Batches ==
    { << Candidate(<< 65 >>) >>,
      << Candidate(<< 65 >>), Candidate(<< 66 >>) >>,
      << Candidate(<< 65 >>), Candidate(<< 97 >>) >>,
      << Candidate(<< 67 >>), Candidate(<< 65 >>) >>,
      << Candidate(<< 65, 66, 67 >>), Candidate(<< 97, 98, 99 >>) >>,
      << CandidateWith(<< 68 >>, FloatV(4938)), CandidateWith(<< 69 >>, FloatV(50)) >>,
      << CandidateWith(<< 68 >>, FloatV(-50)), CandidateWith(<< 69 >>, IntV(123)) >> }

(***************************************************************************)
(* State.                                                                  *)
(***************************************************************************)
VARIABLES
    table_exists,      \* os.path.exists(dbf_path)
    table_bytes,       \* the bytes at dbf_path
    backups,           \* the backup files: a set of [ts, data]
    now,               \* the last instant the clock was read at
    fertilizers,       \* the candidate batch of add_fertilizers_to_db
    pc,                \* "start", "loop", "write", "done"
    run,               \* the invocation number
    header,            \* DBFWriter.header
    field_descriptors, \* DBFWriter.field_descriptors
    records,           \* DBFWriter.records
    idx,               \* position of the for loop in fertilizers
    added_count,       \* added_count of add_fertilizers_to_db
    result,            \* "none" while running, "True", "False", "raised"
    backup_ts,         \* the instant in backup_path
    start_exists,      \* history: the table path at the start of the invocation
    start_bytes,
    start_backups,     \* history: the backups at the start of the invocation
    loaded,            \* history: the records read_dbf returned
    n_renames,         \* history: renames in this invocation
    n_opens,           \* history: opens of the table for writing in this invocation
    fail_at,           \* history: the write call that failed (0: open, last + 1: close), -1 if none
    prev_result        \* history: the result of the invocation before this one

disk == << table_exists, table_bytes, backups >>
db == << header, field_descriptors, records >>
hist == << start_exists, start_bytes, start_backups, loaded, n_renames, n_opens, fail_at,
           prev_result >>
vars == << table_exists, table_bytes, backups, now, fertilizers, pc, run, header,
           field_descriptors, records, idx, added_count, result, backup_ts,
           start_exists, start_bytes, start_backups, loaded, n_renames, n_opens, fail_at,
           prev_result >>

\* the table file is one of Files, or is not there
Init ==
    /\ table_exists \in BOOLEAN
    /\ table_bytes \in (IF table_exists THEN Files ELSE { << >> })
    /\ backups = {}
    /\ now = 1
    /\ fertilizers \in Batches
    /\ pc = "start"
    /\ run = 1
    /\ header = NoHeader
    /\ field_descriptors = << >>
    /\ records = << >>
    /\ idx = 1
    /\ added_count = 0
    /\ result = "none"
    /\ backup_ts = 0
    /\ start_exists = table_exists
    /\ start_bytes = table_bytes
    /\ start_backups = {}
    /\ loaded = << >>
    /\ n_renames = 0
    /\ n_opens = 0
    /\ fail_at = -1
    /\ prev_result = "none"

(***************************************************************************)
(* add_fertilizers_to_db, one action per step of the invocation.           *)
(***************************************************************************)
Finish(r) ==
    /\ pc' = "done"
    /\ result' = r

\* lines 155-157: the table file is not there
FileNotFound ==
    /\ pc = "start"
    /\ ~table_exists
    /\ Finish("False")
    /\ UNCHANGED << disk, now, fertilizers, run, db, idx, added_count, backup_ts, hist >>

\* lines 159-160: db = DBFWriter(db_path); db.read_dbf()
ReadDbf ==
    /\ pc = "start"
    /\ table_exists
    /\ LET r == read_dbf(table_bytes)
       IN  /\ r.ok
           /\ header' = r.header
           /\ field_descriptors' = r.field_descriptors
           /\ records' = r.records
           /\ loaded' = r.records
    /\ pc' = "loop"
    /\ idx' = 1
    /\ added_count' = 0
    /\ UNCHANGED << disk, now, fertilizers, run, result, backup_ts,
                    start_exists, start_bytes, start_backups, n_renames, n_opens, fail_at,
                    prev_result >>

\* read_dbf raises: the exception leaves add_fertilizers_to_db
ReadDbfRaises ==
    /\ pc = "start"
    /\ table_exists
    /\ ~read_dbf(table_bytes).ok
    /\ Finish("raised")
    /\ UNCHANGED << disk, now, fertilizers, run, db, idx, added_count, backup_ts, hist >>

\* lines 271-273: the candidate's name is found
SkipExisting ==
    /\ pc = "loop"
    /\ idx <= Len(fertilizers)
    /\ record_exists(records, CandidateName(fertilizers[idx]))
    /\ idx' = idx + 1
    /\ UNCHANGED << disk, now, fertilizers, pc, run, db, added_count, result, backup_ts, hist >>

\* record[0] = 0x20 needs a buffer of at least one byte
add_record(field_values) ==
    /\ header.record_length > 0
    /\ records' = Append(records,
                         EncodeRecord(header.record_length, field_descriptors, field_values))
    /\ header' = [header EXCEPT !.num_records = @ + 1]

\* lines 274-277: the candidate is new
AddRecord ==
    /\ pc = "loop"
    /\ idx <= Len(fertilizers)
    /\ ~record_exists(records, CandidateName(fertilizers[idx]))
    /\ add_record(fertilizers[idx])
    /\ added_count' = added_count + 1
    /\ idx' = idx + 1
    /\ UNCHANGED << disk, now, fertilizers, pc, run, field_descriptors, result, backup_ts, hist >>

\* add_record raises IndexError on a zero-length buffer
AddRecordRaises ==
    /\ pc = "loop"
    /\ idx <= Len(fertilizers)
    /\ ~record_exists(records, CandidateName(fertilizers[idx]))
    /\ header.record_length = 0
    /\ Finish("raised")
    /\ UNCHANGED << disk, now, fertilizers, run, db, idx, added_count, backup_ts, hist >>

\* lines 283-285: nothing was added
NoChanges ==
    /\ pc = "loop"
    /\ idx > Len(fertilizers)
    /\ added_count = 0
    /\ Finish("False")
    /\ UNCHANGED << disk, now, fertilizers, run, db, idx, added_count, backup_ts, hist >>

\* write_dbf called from inside the loop, as soon as something was added
RenameEarly ==
    /\ pc = "loop"
    /\ added_count > 0
    /\ table_exists
    /\ \E t \in now..MaxTime :
          /\ now' = t
          /\ backup_ts' = t
          /\ backups' = { b \in backups : b.ts # t } \cup { [ts |-> t, data |-> table_bytes] }
    /\ table_exists' = FALSE
    /\ n_renames' = n_renames + 1
    /\ pc' = "write"
    /\ UNCHANGED << table_bytes, fertilizers, run, db, idx, added_count, result,
                    start_exists, start_bytes, start_backups, loaded, n_opens, fail_at,
                    prev_result >>

\* lines 279-280 and 114-117: write_dbf names the backup after the clock and
\* renames the table file to it (replacing a backup of the same name)
Rename ==
    /\ pc = "loop"
    /\ idx > Len(fertilizers)
    /\ added_count > 0
    /\ table_exists
    /\ \E t \in now..MaxTime :
          /\ now' = t
          /\ backup_ts' = t
          /\ backups' = { b \in backups : b.ts # t } \cup { [ts |-> t, data |-> table_bytes] }
    /\ table_exists' = FALSE
    /\ n_renames' = n_renames + 1
    /\ pc' = "write"
    /\ UNCHANGED << table_bytes, fertilizers, run, db, idx, added_count, result,
                    start_exists, start_bytes, start_backups, loaded, n_opens, fail_at,
                    prev_result >>

\* lines 114-116: the clock is read for the backup name, then os.rename raises
RenameRaises ==
    /\ pc = "loop"
    /\ idx > Len(fertilizers)
    /\ added_count > 0
    /\ table_exists
    /\ \E t \in now..MaxTime : now' = t
    /\ Finish("raised")
    /\ UNCHANGED << disk, fertilizers, run, db, idx, added_count, backup_ts, hist >>

BackupData == (CHOOSE b \in backups : b.ts = backup_ts).data

\* lines 119-147 and 281-282: the new file is written in full
WriteDbf ==
    /\ pc = "write"
    /\ \E t \in now..MaxTime :
          /\ now' = t
          /\ table_bytes' = FileImage(header, records, BackupData, t)
    /\ table_exists' = TRUE
    /\ n_opens' = n_opens + 1
    /\ Finish("True")
    /\ UNCHANGED << backups, fertilizers, run, db, idx, added_count, backup_ts,
                    start_exists, start_bytes, start_backups, loaded, n_renames, fail_at,
                    prev_result >>

\* lines 119-147: open raises and the table path stays empty; or, the clock
\* read for the header at line 121, write call k raises; or the system refuses
\* the bytes past a limit, any number below the size of the whole file, and
\* the flush at close raises
WriteRaises ==
    /\ pc = "write"
    /\ \/ /\ fail_at' = 0
          /\ UNCHANGED << table_exists, table_bytes, now, n_opens >>
       \/ /\ table_exists' = TRUE
          /\ n_opens' = n_opens + 1
          /\ \E t \in now..MaxTime :
                /\ now' = t
                /\ \/ \E k \in 1..Len(WriteParts(header, records, BackupData, t)) :
                         /\ fail_at' = k
                         /\ table_bytes' = PartialImage(header, records, BackupData, t, k)
                   \/ \E limit \in 0..(Len(FileImage(header, records, BackupData, t)) - 1) :
                         /\ fail_at' = Len(WriteParts(header, records, BackupData, t)) + 1
                         /\ table_bytes' = LimitedImage(header, records, BackupData, t, limit)
    /\ Finish("raised")
    /\ UNCHANGED << backups, fertilizers, run, db, idx, added_count, backup_ts,
                    start_exists, start_bytes, start_backups, loaded, n_renames, prev_result >>

\* the program is run again with the same batch, whatever the invocation
\* before it ended with: a new DBFWriter
Restart ==
    /\ pc = "done"
    /\ run < MaxRuns
    /\ run' = run + 1
    /\ pc' = "start"
    /\ result' = "none"
    /\ header' = NoHeader
    /\ field_descriptors' = << >>
    /\ records' = << >>
    /\ idx' = 1
    /\ added_count' = 0
    /\ backup_ts' = 0
    /\ start_exists' = table_exists
    /\ start_bytes' = table_bytes
    /\ start_backups' = backups
    /\ loaded' = << >>
    /\ n_renames' = 0
    /\ n_opens' = 0
    /\ fail_at' = -1
    /\ prev_result' = result
    /\ UNCHANGED << disk, now, fertilizers >>

Next ==
    \/ FileNotFound
    \/ ReadDbf
    \/ ReadDbfRaises
    \/ SkipExisting
    \/ AddRecord
    \/ AddRecordRaises
    \/ NoChanges
    \/ Rename
    \/ RenameRaises
    \/ WriteDbf
    \/ WriteRaises
    \/ Restart

Spec == Init /\ [][Next]_vars

(***************************************************************************)
(* Vocabulary of the properties.                                           *)
(***************************************************************************)
Running == pc \in {"loop", "write"}
Committed == pc = "done" /\ result = "True"

RECURSIVE SumLengths(_)
SumLengths(descs) == IF descs = << >> THEN 0 ELSE Head(descs).length + SumLengths(Tail(descs))

\* a table file as the format describes it: header, descriptor array with its
\* terminator inside header_length, descriptors that add up to the record
\* length, and all the declared records present from header_length on
WellFormedFile(f) ==
    /\ read_dbf(f).ok
    /\ LET r == read_dbf(f)
           h == r.header
       IN  /\ h.record_length >= 1
           /\ h.header_length >= HeaderSize + DescSize * Len(r.field_descriptors) + 1
           /\ SumLengths(r.field_descriptors) = h.record_length - 1
           /\ Len(f) >= h.header_length + h.num_records * h.record_length

\* record i (from 0) of a file, by the header's offsets
FileRecord(f, i) ==
    LET h == ParseHeader(f)
    IN  Slice(f, h.header_length + i * h.record_length,
              h.header_length + (i + 1) * h.record_length)

\* C1: after a commit on a well-formed file with N records, the rewritten file
\* holds the same N records, byte for byte, at the same offsets
\* (header_length + i * record_length), followed by the appended records.
C1_RecordsPreserved ==
    (Committed /\ WellFormedFile(start_bytes)) =>
        LET n == ParseHeader(start_bytes).num_records
        IN  /\ \A i \in 0..(n - 1) :
                  FileRecord(table_bytes, i) = FileRecord(start_bytes, i)
            /\ \A j \in 1..added_count :
                  FileRecord(table_bytes, n + j - 1) = records[Len(records) - added_count + j]

\* C2: a second run with the same batch, after a first run that completed,
\* adds nothing and writes nothing: no rename, no new backup, the table file
\* as the first run left it.
C2_SecondRunIdle ==
    (run > 1 /\ prev_result \in {"True", "False"}) =>
        /\ added_count = 0
        /\ n_renames = 0
        /\ n_opens = 0
        /\ backups = start_backups
        /\ table_exists = start_exists
        /\ table_bytes = start_bytes

\* the candidate the loop is at
AtCandidate == pc = "loop" /\ idx <= Len(fertilizers)
CurrentName == CandidateName(fertilizers[idx])

\* C3: within one invocation the rename and the rewrite happen at most once
\* each, and only when the loop is over and something was added; an
\* invocation that ends with nothing added leaves the table file and the
\* backups as it found them and does not report success.
C3_CommitOnceAfterLoop ==
    /\ n_renames <= 1
    /\ n_opens <= 1
    /\ (n_renames > 0 \/ n_opens > 0) => (idx > Len(fertilizers) /\ added_count > 0)
    /\ (pc = "done" /\ added_count = 0) =>
          /\ n_renames = 0
          /\ n_opens = 0
          /\ table_exists = start_exists
          /\ table_bytes = start_bytes
          /\ backups = start_backups
          /\ result # "True"
          /\ (idx > Len(fertilizers) => result = "False")

\* an invocation went through the whole batch, added nothing and returned False
C3_Witness ==
    /\ pc = "done"
    /\ result = "False"
    /\ idx > Len(fertilizers)
    /\ added_count = 0
    /\ table_bytes = start_bytes

\* the record blocks of a file: the record_length-byte blocks between the
\* terminator of the descriptor array and the end-of-file marker; -1 when
\* those bytes are not a whole number of blocks
BlocksInFile(f) ==
    LET r == read_dbf(f)
        first == HeaderSize + DescSize * Len(r.field_descriptors) + 1
        body == Len(f) - first - 1
    IN  IF body >= 0 /\ body % r.header.record_length = 0
        THEN body \div r.header.record_length
        ELSE -1

\* the header fields of the rewritten file against the original's
HeaderFieldsKept ==
    Committed =>
        /\ ParseHeader(table_bytes).header_length = ParseHeader(start_bytes).header_length
        /\ ParseHeader(table_bytes).record_length = ParseHeader(start_bytes).record_length
        /\ ParseHeader(table_bytes).num_records =
              ParseHeader(start_bytes).num_records + added_count

\* C4: after a commit the rewritten header has the original header_length and
\* record_length, and a record_count of the original count plus the number
\* added, which is the number of record blocks written to the file.
C4_HeaderAfterCommit ==
    /\ HeaderFieldsKept
    /\ Committed => ParseHeader(table_bytes).num_records = BlocksInFile(table_bytes)

IsLetter(b) == (b >= 65 /\ b <= 90) \/ (b >= 97 /\ b <= 122)

\* two names that differ at most in the case of their letters
SameUpToCase(a, b) ==
    /\ Len(a) = Len(b)
    /\ \A i \in 1..Len(a) :
          \/ a[i] = b[i]
          \/ IsLetter(a[i]) /\ IsLetter(b[i]) /\ (a[i] - b[i]) \in {32, -32}

IsActive(record) == Len(record) >= 1 /\ record[1] = ActiveMark
IsTombstone(record) == Len(record) >= 1 /\ record[1] = DeletedMark

\* an active record of the table carries the name, up to letter case
HasCaseTwin(name) ==
    \E i \in 1..Len(records) :
        IsActive(records[i]) /\ SameUpToCase(RecordName(records[i]), name)

\* C5: when an active record of the table has the candidate's name up to
\* letter case, record_exists returns true and the loop step skips the
\* candidate: nothing is appended.
C5_CaseInsensitive ==
    /\ []((AtCandidate /\ HasCaseTwin(CurrentName)) => record_exists(records, CurrentName))
    /\ [][(AtCandidate /\ HasCaseTwin(CurrentName)) =>
              (records' = records /\ added_count' = added_count /\ idx' = idx + 1)]_vars

\* the first candidate was skipped for an active record whose name differs
\* from it in letter case
C5_Witness ==
    /\ pc = "loop"
    /\ idx = 2
    /\ added_count = 0
    /\ \E i \in 1..Len(records) :
          /\ IsActive(records[i])
          /\ RecordName(records[i]) # CandidateName(fertilizers[1])
          /\ SameUpToCase(RecordName(records[i]), CandidateName(fertilizers[1]))

\* the records of recs that carry the name, up to letter case, are tombstones,
\* and there is one
OnlyTombstonesMatch(recs, name) ==
    /\ \E i \in 1..Len(recs) :
          IsTombstone(recs[i]) /\ SameUpToCase(RecordName(recs[i]), name)
    /\ \A i \in 1..Len(recs) :
          SameUpToCase(RecordName(recs[i]), name) => IsTombstone(recs[i])

\* C6: when only tombstoned records carry the candidate's name, record_exists
\* returns false and the loop step appends one record with status byte 0x20;
\* while an invocation runs, every tombstoned record keeps its place and its
\* bytes in the record sequence.
C6_TombstonesDoNotBlock ==
    /\ []((AtCandidate /\ OnlyTombstonesMatch(records, CurrentName)) =>
              ~record_exists(records, CurrentName))
    /\ [][(AtCandidate /\ OnlyTombstonesMatch(records, CurrentName)) =>
              /\ Len(records') = Len(records) + 1
              /\ IsActive(records'[Len(records')])
              /\ added_count' = added_count + 1]_vars
    /\ [][Running =>
              \A i \in 1..Len(records) :
                  IsTombstone(records[i]) => (i <= Len(records') /\ records'[i] = records[i])]_vars

\* the first candidate was appended although a tombstone carries its name
C6_Witness ==
    /\ pc = "loop"
    /\ idx = 2
    /\ added_count = 1
    /\ OnlyTombstonesMatch(loaded, CandidateName(fertilizers[1]))
    /\ Len(records) = Len(loaded) + 1
    /\ IsActive(records[Len(records)])
    /\ \A i \in 1..Len(loaded) : records[i] = loaded[i]

\* C7: the table path is opened for writing only after the rename, and a
\* write that fails after the rename leaves no file at the table path and the
\* backup with the original contents.
C7_FailedCommitLeavesNoTable ==
    /\ n_opens > 0 => n_renames > 0
    /\ (pc = "done" /\ fail_at >= 0) =>
          /\ ~table_exists
          /\ [ts |-> backup_ts, data |-> start_bytes] \in backups

\* fewer bytes than header_length + record_count * record_length
Truncated(f) ==
    /\ HeaderReadable(f)
    /\ Len(f) < ParseHeader(f).header_length
                  + ParseHeader(f).num_records * ParseHeader(f).record_length

\* C8: on a truncated file the load fails: the invocation ends with the
\* error, with no record sequence, nothing added, no rename and no write.
C8_TruncatedLoadFails ==
    (pc # "start" /\ start_exists /\ Truncated(start_bytes)) =>
        /\ result = "raised"
        /\ records = << >>
        /\ added_count = 0
        /\ n_renames = 0
        /\ n_opens = 0

\* C9: in the header a commit writes, byte 0 and bytes 12..31 are those of the
\* original header.
C9_HeaderFrame ==
    Committed =>
        /\ table_bytes[1] = start_bytes[1]
        /\ \A i \in 13..HeaderSize : table_bytes[i] = start_bytes[i]

\* C10: every record of the table has record_length bytes; stated of a table
\* whose loaded records have, so that it speaks of the records add_record
\* builds.
C10_RecordLength ==
    (pc \in {"loop", "write", "done"}
        /\ \A i \in 1..Len(loaded) : Len(loaded[i]) = header.record_length) =>
            \A i \in 1..Len(records) : Len(records[i]) = header.record_length

\* the text of a number in a Numeric field of d decimals, before any padding
NumericText(value, d) ==
    IF d > 0 THEN FixedPoint(Quarters(value), d) ELSE IntText(Quarters(value))

\* a value format_value formats as a number: not absent, and float() takes it
IsNumber(value) ==
    /\ value.kind # "none"
    /\ ~(value.kind = "str" /\ value.s = << >>)
    /\ ~FloatRaises(value)

\* the last n bytes of a text
Rightmost(text, n) == Slice(text, Len(text) - n, Len(text))

\* the bytes of field k (from 1) in a record, by the descriptors' lengths
FieldBytes(record, descs, k) ==
    LET offset == 1 + SumLengths(SubSeq(descs, 1, k - 1))
    IN  Slice(record, offset, offset + descs[k].length)

\* the candidate's value for descriptor k
FieldValue(fert, descs, k) == DictGet(fert, descs[k].name)

\* descriptor k is Numeric and the candidate has a number for it
NumericCase(fert, descs, k) ==
    descs[k].type = 78 /\ IsNumber(FieldValue(fert, descs, k))

Overflows(fert, descs, k) ==
    Len(NumericText(FieldValue(fert, descs, k), descs[k].decimal)) > descs[k].length

\* the loop step that appends the candidate it is at
Appends == AtCandidate /\ Len(records') = Len(records) + 1

\* a number whose text fits its field is right-justified in the appended record
NumericFitRightJustified ==
    [][Appends =>
          \A k \in 1..Len(field_descriptors) :
              (NumericCase(fertilizers[idx], field_descriptors, k)
                  /\ ~Overflows(fertilizers[idx], field_descriptors, k)) =>
                  FieldBytes(records'[Len(records')], field_descriptors, k) =
                      Rjust(NumericText(FieldValue(fertilizers[idx], field_descriptors, k),
                                        field_descriptors[k].decimal),
                            field_descriptors[k].length)]_vars

\* C11: in an appended record, a Numeric field given a number holds exactly
\* descriptor.length bytes: the rightmost descriptor.length characters of the
\* number's text when the text is longer than the field, and the text
\* right-justified, padded with spaces on the left, when it fits.
C11_NumericKeepsRightmost ==
    [][Appends =>
          \A k \in 1..Len(field_descriptors) :
              NumericCase(fertilizers[idx], field_descriptors, k) =>
                  LET text == NumericText(FieldValue(fertilizers[idx], field_descriptors, k),
                                          field_descriptors[k].decimal)
                      length == field_descriptors[k].length
                  IN  FieldBytes(records'[Len(records')], field_descriptors, k) =
                          IF Len(text) > length
                          THEN Rightmost(text, length)
                          ELSE Rjust(text, length)]_vars

\* a table whose records hold the status byte and the Name field and nothing
\* else, loaded whole, each record active or tombstoned: bytes 1..80 of a
\* record are then the stored name
PlainNameTable ==
    /\ Len(field_descriptors) = 1
    /\ field_descriptors[1].name = NameKey
    /\ field_descriptors[1].type = 67
    /\ header.record_length = 1 + field_descriptors[1].length
    /\ \A i \in 1..Len(loaded) :
          /\ Len(loaded[i]) = header.record_length
          /\ IsActive(loaded[i]) \/ IsTombstone(loaded[i])

\* no active record of the loaded table carries the name, up to letter case
IsNewName(name) ==
    ~\E i \in 1..Len(loaded) :
        IsActive(loaded[i]) /\ SameUpToCase(RecordName(loaded[i]), name)

\* no earlier candidate of the batch has the name of candidate i, up to case
FirstOfItsName(i) ==
    ~\E j \in 1..(i - 1) :
        SameUpToCase(CandidateName(fertilizers[j]), CandidateName(fertilizers[i]))

DistinctNewNames ==
    Cardinality({ i \in 1..Len(fertilizers) :
                    IsNewName(CandidateName(fertilizers[i])) /\ FirstOfItsName(i) })

\* the loop has gone through the whole batch
LoopOver == pc # "start" /\ idx > Len(fertilizers)

\* C12: when the loop has gone through the batch, no two of the records it
\* appended are active with the same name up to letter case, and the number it
\* appended is the number of distinct new names of the batch; stated of tables
\* whose records hold the name alone, so that it speaks of the names.
C12_BatchDuplicatesSkipped ==
    (LoopOver /\ PlainNameTable) =>
        /\ \A i, j \in (Len(loaded) + 1)..Len(records) :
              (i < j /\ IsActive(records[i]) /\ IsActive(records[j])) =>
                  ~SameUpToCase(RecordName(records[i]), RecordName(records[j]))
        /\ added_count = DistinctNewNames

\* the same, of the batches whose names fit the Name field
NamesFit ==
    \A i \in 1..Len(fertilizers) :
        Len(CandidateName(fertilizers[i])) <= field_descriptors[1].length

BatchDuplicatesSkippedWhenNamesFit ==
    (LoopOver /\ PlainNameTable /\ NamesFit) =>
        /\ \A i, j \in (Len(loaded) + 1)..Len(records) :
              (i < j /\ IsActive(records[i]) /\ IsActive(records[j])) =>
                  ~SameUpToCase(RecordName(records[i]), RecordName(records[j]))
        /\ added_count = DistinctNewNames

====
